---- MODULE Spec2Model ----
(***************************************************************************)
(* Model of the backend shim of the agent application:                     *)
(*   backend/src/agent/app.py      download_biography, create_frontend_router *)
(*   backend/src/agent/prompts.py  the prompt templates                    *)
(* Text is a TLA+ string where it is only compared or concatenated, and a  *)
(* sequence of tokens where the code scans it (route patterns, templates). *)
(***************************************************************************)
EXTENDS Integers, Sequences, FiniteSets, TLC

\* Number of request slots of the biography endpoint that may be in flight.
MaxRequests == 2

\* Number of request slots of the frontend router.
MaxFrontendRequests == 2

\* Largest value drawn for the number_queries template argument.
MaxNumberQueries == 3

VARIABLES
    store,       \* checkpoint store: thread_id -> latest snapshot (or none)
    req,         \* per request slot: the handler's locals, position, responses
    queried,     \* per request slot: what the store held for the slot's own
                 \* thread_id when its query was answered (history variable)
    log,         \* lines printed by the handlers
    fs,          \* build directory: relative path -> "absent" | "file" | "dir"
    build_is_dir,\* whether the build directory itself exists
    router,      \* what create_frontend_router returned at startup
    fresp,       \* per frontend request slot: the request and its response
    prompt       \* template formatting: the call and its result

vars == <<store, req, queried, log, fs, build_is_dir, router, fresp, prompt>>

bioVars == <<store, req, queried, log>>
frontVars == <<fs, build_is_dir, router, fresp>>
promptVars == <<prompt>>

\* Python's None, where the value is otherwise text.
None == "<None>"

\* Python's None, where the value is otherwise an object (a state snapshot).
Nothing == [nothing |-> TRUE]

\* bool(x) for the values the handler tests: None and "" are falsy.
truthy(x) == x # None /\ x # ""

(***************************************************************************)
(* The checkpoint store, as download_biography sees it                     *)
(***************************************************************************)
ThreadIds == {"t1", "t2"}

Texts == {"", "bio A", "bio B"}

\* The snapshot's values mapping: with or without a biography_content field.
ValueMaps ==
    {[messages |-> "m"]}
        \cup {[messages |-> "m", biography_content |-> t] : t \in Texts}

\* What the store holds for a thread: nothing, or an object with .values.
Snapshots == {Nothing} \cup {[values |-> v] : v \in ValueMaps}

\* Texts of the exceptions the store interaction can raise: while the
\* checkpointer and the graph are built, and while the query runs.
BuildExcTexts == {"connection refused"}

QueryExcTexts == {"relation checkpoints does not exist"}

\* dict.get(key): the value, or None when the key is absent.
values_get(values, key) ==
    IF key \in DOMAIN values THEN values[key] ELSE None

\* config = {"configurable": {"thread_id": thread_id}}
config_shared(thread_id) ==
    [configurable |->
        [thread_id |-> IF req[1].thread_id \in ThreadIds
                       THEN req[1].thread_id ELSE thread_id]]

config(thread_id) == [configurable |-> [thread_id |-> thread_id]]

\* retrieval_graph.aget_state(config): the latest snapshot stored under the key.
aget_state(cfg) == store[cfg.configurable.thread_id]

\* file_name = f"biography_{thread_id}.md"
file_name_other(thread_id) == "biography_" \o "t1" \o ".md"

file_name(thread_id) == "biography_" \o thread_id \o ".md"

\* StreamingResponse(iter([stream.read()]), media_type="text/markdown", headers=...)
found_response_truncated(thread_id, biography_text) ==
    [status_code |-> 200,
     body |-> <<>>,
     media_type |-> "text/markdown",
     headers |-> [Content_Disposition |->
                     "attachment; filename=" \o file_name(thread_id)]]

found_response(thread_id, biography_text) ==
    [status_code |-> 200,
     body |-> <<biography_text>>,
     media_type |-> "text/markdown",
     headers |-> [Content_Disposition |->
                     "attachment; filename=" \o file_name(thread_id)]]

\* Response(content="Biography not found ...", status_code=404)
not_found_response_default ==
    [status_code |-> 200,
     body |-> <<"No biography yet.">>,
     media_type |-> "text/markdown",
     headers |-> [Content_Disposition |-> "attachment; filename=biography.md"]]

not_found_response ==
    [status_code |-> 404,
     body |-> <<"Biography not found or not yet generated for this thread.">>,
     media_type |-> None,
     headers |-> [h \in {} |-> ""]]

\* Response(content="Error retrieving biography.", status_code=500)
error_response_leaky(e) ==
    [status_code |-> 500,
     body |-> <<"Error retrieving biography: ", e>>,
     media_type |-> None,
     headers |-> [h \in {} |-> ""]]

error_response(e) ==
    [status_code |-> 500,
     body |-> <<"Error retrieving biography.">>,
     media_type |-> None,
     headers |-> [h \in {} |-> ""]]

\* The body a client receives: the response's chunks, one after the other.
RECURSIVE body_text(_)
body_text(chunks) ==
    IF chunks = <<>> THEN "" ELSE Head(chunks) \o body_text(Tail(chunks))

\* Lines 83-96: the response for the snapshot the query returned.
respond(thread_id, state_snapshot) ==
    IF state_snapshot # Nothing
    THEN LET biography_text ==
                 values_get(state_snapshot.values, "biography_content")
         IN  IF truthy(biography_text)
             THEN found_response(thread_id, biography_text)
             ELSE not_found_response
    ELSE not_found_response

(***************************************************************************)
(* Request slots of download_biography                                     *)
(***************************************************************************)
Requests == 1 .. MaxRequests

idle_request ==
    [pc |-> "idle", thread_id |-> None, state_snapshot |-> Nothing,
     exc |-> None, queries |-> 0, responses |-> <<>>]

\* return <response>: the handler ends with this response.
returns(rq, response) ==
    [rq EXCEPT !.pc = "done", !.responses = Append(@, response)]

\* Lines 98-100: except Exception as e: log it, answer 500.
except_handler_retry(rq, e) ==
    IF rq.queries < 2
    THEN [rq EXCEPT !.pc = "await", !.queries = @ + 1]
    ELSE returns([rq EXCEPT !.exc = e], error_response(e))

except_handler(rq, e) == returns([rq EXCEPT !.exc = e], error_response(e))

\* What the handler does to the checkpoint store: it only reads it.
HandlerWritesDefault ==
    store' = [t \in ThreadIds |->
                 IF store[t] = Nothing
                 THEN [values |-> [messages |-> "m", biography_content |-> ""]]
                 ELSE store[t]]

HandlerFrame == UNCHANGED store

BioInit ==
    /\ store \in [ThreadIds -> Snapshots]
    /\ req = [r \in Requests |-> idle_request]
    /\ queried = [r \in Requests |-> [asked |-> FALSE, snapshot |-> Nothing]]
    /\ log = {}

\* Lines 63-81, up to the await: a request for thread_id arrives; the
\* checkpointer and the retrieval graph are built and the query is issued,
\* or one of the two constructions raises.
Begin(r, thread_id) ==
    /\ req[r].pc = "idle"
    /\ \/ /\ req' = [req EXCEPT ![r] =
                        [@ EXCEPT !.pc = "await", !.thread_id = thread_id,
                                  !.queries = @ + 1]]
          /\ UNCHANGED log
       \/ \E e \in BuildExcTexts :
             /\ req' = [req EXCEPT ![r] =
                           except_handler([@ EXCEPT !.thread_id = thread_id], e)]
             /\ log' = log \cup {e}
    /\ HandlerFrame
    /\ UNCHANGED <<queried, frontVars, promptVars>>

\* Line 81: the store answers the query of slot r with the latest snapshot
\* under the slot's lookup key, or the query raises.
StoreReply(r) ==
    /\ req[r].pc = "await"
    /\ \/ /\ req' = [req EXCEPT ![r] =
                        [@ EXCEPT !.pc = "resume",
                                  !.state_snapshot =
                                      aget_state(config(req[r].thread_id))]]
          /\ queried' = [queried EXCEPT ![r] =
                            [asked |-> TRUE,
                             snapshot |-> store[req[r].thread_id]]]
       \/ \E e \in QueryExcTexts :
             /\ req' = [req EXCEPT ![r] =
                           [@ EXCEPT !.pc = "resume", !.exc = e]]
             /\ UNCHANGED queried
    /\ HandlerFrame
    /\ UNCHANGED <<log, frontVars, promptVars>>

\* Lines 81-100: the handler resumes with the query's outcome and returns.
Resume(r) ==
    /\ req[r].pc = "resume"
    /\ IF req[r].exc # None
       THEN /\ req' = [req EXCEPT ![r] = except_handler(@, req[r].exc)]
            /\ log' = log \cup {req[r].exc}
       ELSE /\ req' = [req EXCEPT ![r] =
                          returns(@, respond(req[r].thread_id,
                                             req[r].state_snapshot))]
            /\ UNCHANGED log
    /\ HandlerFrame
    /\ UNCHANGED <<queried, frontVars, promptVars>>

\* The external agent graph checkpoints a thread's state.
GraphWrite(t, snap) ==
    /\ store[t] # snap
    /\ store' = [store EXCEPT ![t] = snap]
    /\ UNCHANGED <<req, queried, log, frontVars, promptVars>>

(***************************************************************************)
(* The frontend router mounted under /app                                  *)
(***************************************************************************)
\* Regular files the build directory may hold, as paths relative to it.
Files == {<<"index.html">>, <<"favicon.png">>, <<"assets", "/", "app.js">>}

index_html == <<"index.html">>

\* Request paths below the mount point (the "/app" prefix already stripped).
Urls ==
    {<<"/", "index.html">>, <<"/", "favicon.png">>,
     <<"/", "nonexistent", "/", "path">>, <<"/", "{", "index.html", "}">>,
     <<"/", "assets", "/", "app.js">>}

\* Values of a "path" query parameter: absent, or a relative path.
QueryPaths == {<<>>, <<"favicon.png">>, <<"missing.js">>}

\* The path converter's parameter, as the route compiler finds it in a pattern.
ParamToken == "{path:path}"

\* The pattern both routes are registered with, "/{{path:path}}": the only
\* parameter the route compiler finds is {path:path}; the brace before it and
\* the brace after it are literal text of the pattern.
catch_all_pattern == <<"/", "{", ParamToken, "}">>

\* Route matching: the text before the parameter and the text after it must
\* match literally; the path converter takes whatever lies between.
route_matches(pattern, url) ==
    LET i == CHOOSE k \in 1 .. Len(pattern) : pattern[k] = ParamToken
        prefix == SubSeq(pattern, 1, i - 1)
        suffix == SubSeq(pattern, i + 1, Len(pattern))
    IN  /\ Len(url) >= Len(prefix) + Len(suffix)
        /\ SubSeq(url, 1, Len(prefix)) = prefix
        /\ SubSeq(url, Len(url) - Len(suffix) + 1, Len(url)) = suffix

\* Whether the handler's "path" argument is bound from the URL: only when the
\* pattern's parameter is not wrapped in further braces; otherwise the
\* argument is a required query parameter.
path_is_url_param(pattern) ==
    LET i == CHOOSE k \in 1 .. Len(pattern) : pattern[k] = ParamToken
    IN  ~(i > 1 /\ pattern[i - 1] = "{")

\* The text the path converter captured.
url_param(pattern, url) ==
    LET i == CHOOSE k \in 1 .. Len(pattern) : pattern[k] = ParamToken
    IN  SubSeq(url, i, Len(url) - (Len(pattern) - i))

file_content(f) == <<"content of">> \o f

\* Lines 35-41: dummy_frontend.
dummy_frontend ==
    [status_code |-> 503, media_type |-> "text/plain",
     body |-> <<"Frontend not built. Run 'npm run build' in the frontend directory.">>]

\* The router's own answer when no route matches.
no_route == [status_code |-> 404, media_type |-> "text/plain",
             body |-> <<"Not Found">>]

\* The answer to a request that lacks a required parameter.
unprocessable == [status_code |-> 422, media_type |-> "application/json",
                  body |-> <<"Field required">>]

\* FileResponse(fp): the file, or a server error when it is gone.
FileResponse(files, fp) ==
    IF fp \in files
    THEN [status_code |-> 200, media_type |-> "file", body |-> file_content(fp)]
    ELSE [status_code |-> 500, media_type |-> "text/plain",
          body |-> <<"Internal Server Error">>]

\* Lines 54-58: handle_catch_all.
handle_catch_all(files, path) ==
    LET fp == IF path \notin files THEN index_html ELSE path
    IN  FileResponse(files, fp)

\* Lines 48-51: the StaticFiles mount at /assets.
static_assets(files, url) ==
    LET f == SubSeq(url, 2, Len(url))
    IN  IF f \in files
        THEN [status_code |-> 200, media_type |-> "file",
              body |-> file_content(f)]
        ELSE no_route

\* Lines 25-60: create_frontend_router.
create_frontend_router(is_dir, files) ==
    IF ~is_dir \/ index_html \notin files THEN "dummy" ELSE "react"

\* A GET below /app, dispatched by whatever create_frontend_router returned.
frontend_get(rt, files, url, query) ==
    IF rt = "dummy"
    THEN IF route_matches(catch_all_pattern, url)
         THEN dummy_frontend
         ELSE no_route
    ELSE IF Len(url) >= 3 /\ SubSeq(url, 1, 3) = <<"/", "assets", "/">>
         THEN static_assets(files, url)
         ELSE IF route_matches(catch_all_pattern, url)
              THEN IF path_is_url_param(catch_all_pattern)
                   THEN handle_catch_all(files,
                                         url_param(catch_all_pattern, url))
                   ELSE IF query = <<>>
                        THEN unprocessable
                        ELSE handle_catch_all(files, query)
              ELSE no_route

FrontRequests == 1 .. MaxFrontendRequests

no_frontend_request ==
    [answered |-> FALSE, url |-> <<>>, query |-> <<>>, resolves |-> FALSE,
     index_present |-> FALSE, response |-> no_route]

\* Startup (lines 102-107): the build directory is in some state, and the
\* router is created once from it.
FrontInit ==
    /\ build_is_dir \in BOOLEAN
    /\ fs \in SUBSET Files
    /\ (~build_is_dir => fs = {})
    /\ router = create_frontend_router(build_is_dir, fs)
    /\ fresp = [k \in FrontRequests |-> no_frontend_request]

\* GET /app<url>?path=<query> is answered.
FrontendGet(k, url, query) ==
    /\ ~fresp[k].answered
    /\ fresp' = [fresp EXCEPT ![k] =
                    [answered |-> TRUE, url |-> url, query |-> query,
                     resolves |-> SubSeq(url, 2, Len(url)) \in fs,
                     index_present |-> index_html \in fs,
                     response |-> frontend_get(router, fs, url, query)]]
    /\ UNCHANGED <<fs, build_is_dir, router, bioVars, promptVars>>

\* The frontend is built (or a file is added) while the process runs.
BuildWrites(f) ==
    /\ f \notin fs
    /\ fs' = fs \cup {f}
    /\ build_is_dir' = TRUE
    /\ UNCHANGED <<router, fresp, bioVars, promptVars>>

\* A file of the build is removed while the process runs.
BuildRemoves(f) ==
    /\ f \in fs
    /\ fs' = fs \ {f}
    /\ UNCHANGED <<build_is_dir, router, fresp, bioVars, promptVars>>

(***************************************************************************)
(* The prompt templates and their formatting                               *)
(***************************************************************************)
TemplateNames ==
    {"query_writer_instructions", "web_searcher_instructions",
     "reflection_instructions", "answer_instructions",
     "biography_instructions"}

\* The templates, cut into tokens: every brace of the source is one token,
\* the text between braces is one token (long text abbreviated).
query_writer_instructions ==
    <<"... Don't produce more than ", "{", "number_queries", "}",
      " queries. ... The current date is ", "{", "current_date", "}",
      ". Format: ... Example: ... json ", "{", "{", "{", "{",
      " rationale, query ", "}", "}", "}", "}",
      " Context: ", "{", "{", "research_topic", "}", "}">>

web_searcher_instructions ==
    <<"Conduct targeted Google Searches ... on ",
      "{", "{", "research_topic", "}", "}",
      " ... The current date is ", "{", "{", "current_date", "}", "}",
      ". ... Research Topic: ", "{", "{", "research_topic", "}", "}">>

reflection_instructions ==
    <<"You are an expert research assistant analyzing summaries about ",
      "{", "{", "research_topic", "}", "}",
      ". ... Example: json ", "{", "{", "{", "{",
      " is_sufficient, knowledge_gap, follow_up_queries ",
      "}", "}", "}", "}",
      " ... Summaries: ", "{", "{", "summaries", "}", "}">>

answer_instructions ==
    <<"Generate a high-quality answer ... The current date is ",
      "{", "{", "current_date", "}", "}",
      ". ... User Context: - ", "{", "{", "research_topic", "}", "}",
      " Summaries: ", "{", "{", "summaries", "}", "}">>

biography_instructions ==
    <<"Generate a comprehensive and well-structured biography about ",
      "{", "research_topic", "}",
      ", ... The current date is ", "{", "current_date", "}",
      ". ... User Context (Research Topic): - ", "{", "research_topic", "}",
      " Summaries: ", "{", "summaries", "}">>

template(name) ==
    CASE name = "query_writer_instructions" -> query_writer_instructions
      [] name = "web_searcher_instructions" -> web_searcher_instructions
      [] name = "reflection_instructions" -> reflection_instructions
      [] name = "answer_instructions" -> answer_instructions
      [] name = "biography_instructions" -> biography_instructions

\* The placeholder names each template is formatted with.
Placeholders(name) ==
    CASE name = "query_writer_instructions" ->
             {"number_queries", "current_date", "research_topic"}
      [] name = "web_searcher_instructions" ->
             {"research_topic", "current_date"}
      [] name = "reflection_instructions" -> {"research_topic", "summaries"}
      [] name = "answer_instructions" ->
             {"research_topic", "summaries", "current_date"}
      [] name = "biography_instructions" ->
             {"research_topic", "current_date", "summaries"}

\* Values an argument may take.
ArgValues(arg) ==
    CASE arg = "number_queries" -> 1 .. MaxNumberQueries
      [] arg = "current_date" ->
             {"November 05, 2026", "January 01, 2025", "July 04, 2024"}
      [] arg = "research_topic" ->
             {"Ada Lovelace", "Alan Turing", "Grace Hopper"}
      [] arg = "summaries" -> {"summary one", "summary two", "summary three"}

\* str(value), as format renders the argument bound to a field: an integer
\* (number_queries is the only one) in decimal, text as it is.
str(field, value) ==
    IF field = "number_queries" THEN ToString(value) ELSE value

\* str.format(kwargs) from token i on: "{{" and "}}" are literal braces,
\* "{name}" is replaced by str(kwargs[name]); a name kwargs lacks, or a
\* brace without its partner, raises.
RECURSIVE format_from(_, _, _)
format_from(t, i, kwargs) ==
    IF i > Len(t) THEN [ok |-> TRUE, out |-> <<>>]
    ELSE LET next(j, piece) ==
                 LET tail == format_from(t, j, kwargs)
                 IN  IF tail.ok
                     THEN [ok |-> TRUE, out |-> piece \o tail.out]
                     ELSE tail
         IN  IF t[i] = "{"
             THEN IF i + 1 <= Len(t) /\ t[i + 1] = "{"
                  THEN next(i + 2, <<"{">>)
                  ELSE IF i + 2 <= Len(t) /\ t[i + 2] = "}"
                       THEN IF t[i + 1] \in DOMAIN kwargs
                            THEN next(i + 3, <<str(t[i + 1], kwargs[t[i + 1]])>>)
                            ELSE [ok |-> FALSE, out |-> <<"KeyError">>]
                       ELSE [ok |-> FALSE, out |-> <<"ValueError">>]
             ELSE IF t[i] = "}"
                  THEN IF i + 1 <= Len(t) /\ t[i + 1] = "}"
                       THEN next(i + 2, <<"}">>)
                       ELSE [ok |-> FALSE, out |-> <<"ValueError">>]
                  ELSE next(i + 1, <<t[i]>>)

format(t, kwargs) == format_from(t, 1, kwargs)

\* The keyword arguments of a call: a value for each placeholder name.
Kwargs(n) ==
    {[a \in Placeholders(n) |->
         CASE a = "number_queries" -> nq
           [] a = "current_date" -> d
           [] a = "research_topic" -> rt
           [] a = "summaries" -> sm] :
       nq \in ArgValues("number_queries"), d \in ArgValues("current_date"),
       rt \in ArgValues("research_topic"), sm \in ArgValues("summaries")}

\* A template is about to be formatted with a value for each of its
\* placeholder names.
PromptInit ==
    \E n \in TemplateNames : \E kw \in Kwargs(n) :
        prompt = [pc |-> "call", name |-> n, kwargs |-> kw,
                  result |-> [ok |-> FALSE, out |-> <<>>]]

\* <template>.format(kwargs)
Format ==
    /\ prompt.pc = "call"
    /\ prompt' = [prompt EXCEPT !.pc = "done",
                                !.result = format(template(prompt.name),
                                                  prompt.kwargs)]
    /\ UNCHANGED <<bioVars, frontVars>>

(***************************************************************************)
(* Specifications                                                          *)
(***************************************************************************)
\* The parts a specification does not exercise rest in one fixed state.
BioQuiet ==
    /\ store = [t \in ThreadIds |-> Nothing]
    /\ req = [r \in Requests |-> idle_request]
    /\ queried = [r \in Requests |-> [asked |-> FALSE, snapshot |-> Nothing]]
    /\ log = {}

FrontQuiet ==
    /\ build_is_dir = FALSE
    /\ fs = {}
    /\ router = create_frontend_router(FALSE, {})
    /\ fresp = [k \in FrontRequests |-> no_frontend_request]

PromptQuiet ==
    prompt = [pc |-> "done", name |-> "biography_instructions",
              kwargs |-> [a \in {} |-> ""],
              result |-> [ok |-> FALSE, out |-> <<>>]]

Init == BioInit /\ FrontQuiet /\ PromptQuiet

Next ==
    \/ \E r \in Requests, t \in ThreadIds : Begin(r, t)
    \/ \E r \in Requests : StoreReply(r)
    \/ \E r \in Requests : Resume(r)
    \/ \E t \in ThreadIds, snap \in Snapshots \ {Nothing} : GraphWrite(t, snap)

\* The biography endpoint and the agent graph's writes.
Spec == Init /\ [][Next]_vars

FrontendInit == BioQuiet /\ FrontInit /\ PromptQuiet

FrontendNext ==
    \/ \E k \in FrontRequests, url \in Urls, query \in QueryPaths :
           FrontendGet(k, url, query)
    \/ \E f \in Files : BuildWrites(f)
    \/ \E f \in Files : BuildRemoves(f)

\* The frontend router and the build directory.
FrontendSpec == FrontendInit /\ [][FrontendNext]_vars

PromptsInit == BioQuiet /\ FrontQuiet /\ PromptInit

PromptsNext == Format

\* Formatting of the prompt templates.
PromptSpec == PromptsInit /\ [][PromptsNext]_vars


(***************************************************************************)
(* Properties                                                              *)
(***************************************************************************)
Done(r) == req[r].pc = "done"

\* The response slot r returned (meaningful once Done(r)).
Response(r) == req[r].responses[Len(req[r].responses)]

\* The snapshot exists and holds a non-empty biography_content.
HasBiography(snap) ==
    /\ snap # Nothing
    /\ "biography_content" \in DOMAIN snap.values
    /\ snap.values.biography_content # ""

NotFoundMessage == "Biography not found or not yet generated for this thread."

ErrorMessage == "Error retrieving biography."

\* C1: a request whose query was answered with a snapshot holding a non-empty
\* biography_content is answered 200, text/markdown, with a body equal to
\* the text the store held for that thread when the query was answered.
C1_StoredBiographyReturned ==
    \A r \in Requests :
        (Done(r) /\ queried[r].asked /\ HasBiography(queried[r].snapshot))
            => /\ Response(r).status_code = 200
               /\ Response(r).media_type = "text/markdown"
               /\ body_text(Response(r).body) =
                      queried[r].snapshot.values.biography_content

\* C1 witness: a 200 was returned, and the agent graph has since written
\* another snapshot for the same thread.
C1_Witness ==
    \E r \in Requests :
        /\ Done(r) /\ queried[r].asked /\ HasBiography(queried[r].snapshot)
        /\ Response(r).status_code = 200
        /\ store[req[r].thread_id] # queried[r].snapshot

\* C2: no snapshot, a snapshot without biography_content, or one whose
\* biography_content is empty, is answered 404 with the fixed message; and
\* every 200 carries a text the store held, never a substitute.
C2_NeverFabricates ==
    \A r \in Requests :
        /\ (Done(r) /\ queried[r].asked /\ ~HasBiography(queried[r].snapshot))
               => /\ Response(r).status_code = 404
                  /\ body_text(Response(r).body) = NotFoundMessage
        /\ (Done(r) /\ Response(r).status_code = 200)
               => /\ queried[r].asked
                  /\ HasBiography(queried[r].snapshot)

\* C2 witness: one request found no snapshot at all, another found a
\* snapshot lacking a non-empty biography_content; both got their 404.
C2_Witness ==
    \E r, q \in Requests :
        /\ Done(r) /\ queried[r].asked /\ queried[r].snapshot = Nothing
        /\ Done(q) /\ queried[q].asked /\ queried[q].snapshot # Nothing
        /\ ~HasBiography(queried[q].snapshot)
        /\ Response(r).status_code = 404 /\ Response(q).status_code = 404

\* C3: when building the checkpointer or the graph, or the query, raises,
\* the handler itself returns one response: 500 with the fixed body; the
\* exception's text is no part of the body or of a header.
C3_ErrorIsGeneric ==
    \A r \in Requests :
        (Done(r) /\ req[r].exc # None)
            => /\ Len(req[r].responses) = 1
               /\ Response(r).status_code = 500
               /\ body_text(Response(r).body) = ErrorMessage
               /\ \A i \in DOMAIN Response(r).body :
                      Response(r).body[i] # req[r].exc
               /\ \A h \in DOMAIN Response(r).headers :
                      Response(r).headers[h] # req[r].exc

\* C3 witness: one request failed before its query was issued, another
\* failed in the query; both were answered.
C3_Witness ==
    \E r, q \in Requests :
        /\ Done(r) /\ req[r].exc \in BuildExcTexts
        /\ Done(q) /\ req[q].exc \in QueryExcTexts

\* C4: every 200 names the file after the thread_id of its own request.
C4_FileNameIsOwnThread ==
    \A r \in Requests :
        (Done(r) /\ Response(r).status_code = 200)
            => Response(r).headers.Content_Disposition =
                   "attachment; filename=biography_" \o req[r].thread_id
                       \o ".md"

\* C4 witness: two 200 responses for two different threads.
C4_Witness ==
    \E r, q \in Requests :
        /\ Done(r) /\ Response(r).status_code = 200
        /\ Done(q) /\ Response(q).status_code = 200
        /\ req[r].thread_id # req[q].thread_id

\* C5: with the build present at startup, a GET below /app for a path that
\* is no regular file of the build is answered 200 with index.html, and a
\* path that is one is answered with that file.
C5_FallbackToIndex ==
    \A k \in FrontRequests :
        (fresp[k].answered /\ router = "react" /\ fresp[k].index_present)
            => /\ fresp[k].response.status_code = 200
               /\ fresp[k].response.body =
                      IF fresp[k].resolves
                      THEN file_content(SubSeq(fresp[k].url, 2,
                                               Len(fresp[k].url)))
                      ELSE file_content(index_html)

\* C6: with the build missing at startup, every GET below /app is answered
\* 503 with the fixed message, whatever the path and whatever happens to the
\* build directory later.
C6_AlwaysUnavailable ==
    \A k \in FrontRequests :
        (fresp[k].answered /\ router = "dummy")
            => /\ fresp[k].response.status_code = 503
               /\ fresp[k].response = dummy_frontend

\* C7: formatting a template with a value for each of its placeholder names
\* succeeds, puts every value into the result and leaves none of the
\* placeholders in it.
C7_PlaceholdersSubstituted ==
    (prompt.pc = "done" /\ DOMAIN prompt.kwargs = Placeholders(prompt.name))
        => /\ prompt.result.ok
           /\ \A a \in Placeholders(prompt.name) :
                  LET out == prompt.result.out
                  IN  /\ \E i \in DOMAIN out :
                             out[i] = str(a, prompt.kwargs[a])
                      /\ ~\E i \in DOMAIN out :
                             /\ i + 2 <= Len(out)
                             /\ out[i] = "{" /\ out[i + 1] = a
                             /\ out[i + 2] = "}"

\* C8: a step of the handler, whatever its outcome, leaves every thread's
\* stored snapshot as it was; only the agent graph's writes change the store.
C8_HandlerOnlyReads == [][(req' # req) => (store' = store)]_vars

\* C8 witness: one request was answered 200 and another 404.
C8_Witness ==
    \E r, q \in Requests :
        /\ Done(r) /\ Response(r).status_code = 200
        /\ Done(q) /\ Response(q).status_code = 404

\* C9 (state part): a request issues at most one query, never returns more
\* than one response, returns nothing before it is done, and ends with one
\* whole response of status 200, 404 or 500; a request under way can always
\* take its next step, and an unused slot can always take a request.
C9_OneQueryOneResponse ==
    \A r \in Requests :
        /\ req[r].queries <= 1
        /\ Len(req[r].responses) <= 1
        /\ req[r].pc \in {"await", "resume"}
               => (req[r].queries = 1 /\ req[r].responses = <<>>)
        /\ Done(r)
               => /\ Len(req[r].responses) = 1
                  /\ Response(r).status_code \in {200, 404, 500}
                  /\ Len(Response(r).body) = 1
        /\ req[r].pc = "await" => ENABLED StoreReply(r)
        /\ req[r].pc = "resume" => ENABLED Resume(r)
        /\ req[r].pc = "idle" => \A t \in ThreadIds : ENABLED Begin(r, t)

\* How far a handler has come.
Progress(pc) ==
    CASE pc = "idle" -> 0 [] pc = "await" -> 1 [] pc = "resume" -> 2
      [] pc = "done" -> 3

\* C9 (step part): every step of a request moves it forward, so it is done
\* after at most three steps and never goes back to query again.
C9_StepsAdvance ==
    \A r \in Requests :
        req'[r] # req[r] => Progress(req'[r].pc) > Progress(req[r].pc)

\* C9: each request issues at most one query and then ends, in at most three
\* steps, with exactly one response out of 200, 404 and 500.
C9_SingleFetchTerminates ==
    []C9_OneQueryOneResponse /\ [][C9_StepsAdvance]_vars

\* C9 witness: a request failed with 500 and another was answered 200.
C9_Witness ==
    \E r, q \in Requests :
        /\ Done(r) /\ Response(r).status_code = 500 /\ req[r].queries = 1
        /\ Done(q) /\ Response(q).status_code = 200

\* The response the endpoint owes a thread_id for a snapshot.
OwedResponse(thread_id, snap) ==
    IF HasBiography(snap)
    THEN [status_code |-> 200,
          body |-> <<snap.values.biography_content>>,
          media_type |-> "text/markdown",
          headers |-> [Content_Disposition |->
                          "attachment; filename=biography_" \o thread_id
                              \o ".md"]]
    ELSE [status_code |-> 404, body |-> <<NotFoundMessage>>,
          media_type |-> None, headers |-> [h \in {} |-> ""]]

\* A request's response is decided by its own thread_id and by what the store
\* held for that thread when its own query was answered, and by nothing else.
C10_OwnInputsOnly ==
    \A r \in Requests :
        Done(r) =>
            IF req[r].exc = None
            THEN /\ queried[r].asked
                 /\ Response(r) = OwedResponse(req[r].thread_id,
                                               queried[r].snapshot)
            ELSE Response(r).status_code = 500

\* A step changes at most one request, and never one that is done.
C10_OthersUntouched ==
    \A r \in Requests :
        /\ (req'[r] # req[r] \/ queried'[r] # queried[r])
               => \A q \in Requests \ {r} :
                      req'[q] = req[q] /\ queried'[q] = queried[q]
        /\ Done(r) => (req'[r] = req[r] /\ queried'[r] = queried[r])

\* C10: under every interleaving of requests and agent-graph writes, each
\* response depends only on the request's own thread_id and on the store's
\* content for that thread at its own query; no request touches another.
C10_RequestsIndependent ==
    []C10_OwnInputsOnly /\ [][C10_OthersUntouched]_vars

\* C10 witness: two requests for the same thread, one failed with 500, the
\* other answered 200.
C10_Witness ==
    \E r, q \in Requests :
        /\ req[r].thread_id = req[q].thread_id
        /\ Done(r) /\ Response(r).status_code = 500
        /\ Done(q) /\ Response(q).status_code = 200
====
